---------------------------- MODULE Spec2Model ----------------------------
(***************************************************************************)
(* Model of src/main.py: PetNameGenerator.generate_name (validation,       *)
(* normalisation, the bounded retry loop around chain.invoke, the          *)
(* '|'-delimited response parser and the outer error handler) and the      *)
(* generate-button handler of main() with its session state.               *)
(*                                                                         *)
(* Python strings are sequences of one-character strings.  Python's None   *)
(* is the value None below.  An exception is represented by its str().     *)
(***************************************************************************)
EXTENDS Integers, Sequences, FiniteSets, TLC

(***************************************************************************)
(* Bounds of the model.                                                    *)
(***************************************************************************)
\* retries passed by a direct caller ranges over MinRetries..MaxRetries
MaxRetries == 3
\* number of generate-button clicks explored in one session
MaxClicks == 3

(***************************************************************************)
(* Program constants.                                                      *)
(***************************************************************************)
\* def generate_name(..., retries: int = 3)
DefaultRetries == 3
\* name, explanation, fun_fact, nickname = ...split("|")
ExpectedSegments == 4

\* Python's None (a one-element tuple no string of the model equals)
None == <<"<None>">>

(***************************************************************************)
(* str methods.                                                            *)
(***************************************************************************)
Whitespace == {" ", "\t", "\n"}

UpperCase == <<"B", "C", "D", "L", "R">>
LowerCase == <<"b", "c", "d", "l", "r">>

\* str.lower() on one character
LowerChar(ch) ==
    IF \E i \in DOMAIN UpperCase : UpperCase[i] = ch
    THEN LowerCase[CHOOSE i \in DOMAIN UpperCase : UpperCase[i] = ch]
    ELSE ch

\* str.lower()
lower(s) == [i \in DOMAIN s |-> LowerChar(s[i])]

RECURSIVE lstrip(_)
lstrip(s) ==
    IF s # <<>> /\ Head(s) \in Whitespace THEN lstrip(Tail(s)) ELSE s

RECURSIVE rstrip(_)
rstrip(s) ==
    IF s # <<>> /\ s[Len(s)] \in Whitespace
    THEN rstrip(SubSeq(s, 1, Len(s) - 1))
    ELSE s

\* str.strip()
strip(s) == rstrip(lstrip(s))

\* str.split(sep) with an explicit one-character separator: always at least
\* one segment, empty segments kept
RECURSIVE split(_, _)
split(s, sep) ==
    IF \E i \in DOMAIN s : s[i] = sep
    THEN LET i == CHOOSE j \in DOMAIN s :
                      s[j] = sep /\ \A k \in 1..(j - 1) : s[k] # sep
         IN  <<SubSeq(s, 1, i - 1)>> \o split(SubSeq(s, i + 1, Len(s)), sep)
    ELSE <<s>>

\* bool(s) of a str or None
Truthy(s) == s # None /\ s # <<>>

(***************************************************************************)
(* Values the environment supplies.                                        *)
(***************************************************************************)
\* animal_type as it reaches generate_name: a selectbox label, or the free
\* text typed for "Other" (possibly empty, blank or padded)
AnimalInputs ==
    { <<>>, <<" ">>, <<"C", "a", "t">>, <<" ", "D", "o", "g", "\t">> }

\* pet_color likewise
ColorInputs ==
    { <<>>, <<" ", " ">>, <<"B", "l", "a", "c", "k">>, <<"R", "e", "d", " ">> }

\* retries values a direct caller may pass (any int; 0 and negatives too)
RetriesDomain == (0 - 1)..MaxRetries

\* str(e) of the exceptions chain.invoke raises
ServiceErrors == {"Connection error.", "Rate limit reached"}

\* response.content of the replies chain.invoke returns:
\* " Lu | m g |f| n\n"        4 segments, padded
\* " |e|f|n"                  4 segments, the first one blank
\* "Lu"                       1 segment
\* "L|e|f"                    3 segments
\* "L|e | x|f|n"              5 segments (a stray '|' in the explanation)
PaddedReply ==
    <<" ", "L", "u", " ", "|", " ", "m", " ", "g", " ", "|", "f", "|",
      " ", "n", "\n">>
BlankNameReply == <<" ", "|", "e", "|", "f", "|", "n">>
OneSegmentReply == <<"L", "u">>
ThreeSegmentReply == <<"L", "|", "e", "|", "f">>
FiveSegmentReply == <<"L", "|", "e", " ", "|", " ", "x", "|", "f", "|", "n">>

ServiceReplies ==
    { PaddedReply, BlankNameReply, OneSegmentReply, ThreeSegmentReply,
      FiveSegmentReply }

(***************************************************************************)
(* generate_name: pure parts.                                              *)
(***************************************************************************)
\* variant: rejects only when both values are blank
IsEmptyInputBoth(a, c) == strip(a) = <<>> /\ strip(c) = <<>>

\* "if not animal_type.strip() or not pet_color.strip()"
IsEmptyInput(a, c) == strip(a) = <<>> \/ strip(c) = <<>>

\* "animal_type.lower().strip()"
Normalize(s) == strip(lower(s))

\* str(e) of the ValueError raised at line 49
ValidationMsg == "Animal type and color cannot be empty"

\* str(e) of the ValueError tuple unpacking raises for n # 4 values
UnpackError(n) ==
    CASE n = 1 -> "not enough values to unpack (expected 4, got 1)"
      [] n = 2 -> "not enough values to unpack (expected 4, got 2)"
      [] n = 3 -> "not enough values to unpack (expected 4, got 3)"
      [] OTHER -> "too many values to unpack (expected 4)"

\* the dict returned at lines 65-71
SuccessResult(f) ==
    [name |-> f[1], explanation |-> f[2], fun_fact |-> f[3],
     nickname |-> f[4], error |-> None]

\* variant: the four segments are returned without their .strip()
ParseResponseUntrimmed(content) ==
    LET parts == split(strip(content), "|")
    IN  IF Len(parts) = ExpectedSegments
        THEN [ok |-> TRUE, fields |-> parts, err |-> ""]
        ELSE [ok |-> FALSE, fields |-> <<>>, err |-> UnpackError(Len(parts))]

\* variant: surplus segments are dropped instead of raising
ParseResponseLenient(content) ==
    LET parts == split(strip(content), "|")
    IN  IF Len(parts) >= ExpectedSegments
        THEN [ok |-> TRUE,
              fields |-> [i \in 1..ExpectedSegments |-> strip(parts[i])],
              err |-> ""]
        ELSE [ok |-> FALSE, fields |-> <<>>, err |-> UnpackError(Len(parts))]

\* "name, explanation, fun_fact, nickname =
\*      response.content.strip().split("|")" and the four .strip() calls
ParseResponse(content) ==
    LET parts == split(strip(content), "|")
    IN  IF Len(parts) = ExpectedSegments
        THEN [ok |-> TRUE,
              fields |-> [i \in 1..ExpectedSegments |-> strip(parts[i])],
              err |-> ""]
        ELSE [ok |-> FALSE, fields |-> <<>>, err |-> UnpackError(Len(parts))]

\* "if attempt == retries - 1: raise"
IsLastAttempt(k, r) == k = r - 1

\* f"Failed to generate name: {str(e)}"
ErrorMessage(desc) == <<"Failed to generate name: ", desc>>

\* the dict returned at lines 80-86
FailureResult(desc) ==
    [name |-> None, explanation |-> None, fun_fact |-> None,
     nickname |-> None, error |-> ErrorMessage(desc)]

\* logger.info(f"Generating name for ...")
InfoEntry == [level |-> "info", attempt |-> 0, text |-> "Generating name"]

\* variant: the warning carries the 0-based loop variable
WarningEntryZeroBased(k, desc) ==
    [level |-> "warning", attempt |-> k, text |-> desc]

\* logger.warning(f"Attempt {attempt + 1} failed: {str(e)}")
WarningEntry(k, desc) == [level |-> "warning", attempt |-> k + 1, text |-> desc]

\* logger.error(error_msg)
ErrorEntry(desc) == [level |-> "error", attempt |-> 0, text |-> desc]

\* no dict built yet
NoResult ==
    [name |-> None, explanation |-> None, fun_fact |-> None,
     nickname |-> None, error |-> None]

(***************************************************************************)
(* State.                                                                  *)
(***************************************************************************)
VARIABLES
    pc,               \* position in generate_name: "idle", "Validating",
                      \* "Attempting" (loop header), "done" (returned)
    animal_type,      \* generate_name's argument, as passed
    pet_color,        \* generate_name's argument, as passed
    retries,          \* generate_name's argument
    input_data,       \* the dict of lines 56-59, built from the values
                      \* lines 51-52 rebind the parameters to
    attempt,          \* the loop variable of "for attempt in range(retries)"
    invocations,      \* the input_data of every chain.invoke call, in order
    outcomes,         \* what each chain.invoke call did, in order: it
                      \* raised (text = <<str(e)>>) or replied (text =
                      \* response.content)
    log,              \* the records written through logger, in order
    ret,              \* "pending", "dict" (a dict was returned) or "None"
                      \* (the function ended without a return statement)
    result,           \* the dict returned, when ret = "dict"
    ui_pc,            \* the button handler: "idle" or "waiting" (in the call)
    ui_animal_type,   \* main()'s animal_type
    ui_pet_color,     \* main()'s pet_color
    name_history,     \* st.session_state.name_history
    generation_count, \* st.session_state.generation_count
    screen,           \* what the handler rendered in this script run
    clock             \* datetime.now(), one tick per click

gen_vars ==
    <<pc, animal_type, pet_color, retries, input_data, attempt, invocations,
      outcomes, log, ret, result>>
ui_vars ==
    <<ui_pc, ui_animal_type, ui_pet_color, name_history, generation_count,
      screen, clock>>
vars == <<gen_vars, ui_vars>>

\* nothing rendered by the handler
BlankScreen == [kind |-> "none", body |-> <<>>]

\* input_data before line 56
NoInputData == [pet_color |-> <<>>, animal_type |-> <<>>]

\* generate_name is not running and none of its locals exist
NotCalled ==
    /\ pc' = "idle"
    /\ animal_type' = <<>>
    /\ pet_color' = <<>>
    /\ retries' = DefaultRetries
    /\ input_data' = NoInputData
    /\ attempt' = 0
    /\ invocations' = <<>>
    /\ outcomes' = <<>>
    /\ log' = <<>>
    /\ ret' = "pending"
    /\ result' = NoResult

\* a fresh session (lines 105-108) with no call in progress
Init ==
    /\ pc = "idle"
    /\ animal_type = <<>>
    /\ pet_color = <<>>
    /\ retries = DefaultRetries
    /\ input_data = NoInputData
    /\ attempt = 0
    /\ invocations = <<>>
    /\ outcomes = <<>>
    /\ log = <<>>
    /\ ret = "pending"
    /\ result = NoResult
    /\ ui_pc = "idle"
    /\ ui_animal_type = <<>>
    /\ ui_pet_color = <<>>
    /\ name_history = <<>>
    /\ generation_count = 0
    /\ screen = BlankScreen
    /\ clock = 0

(***************************************************************************)
(* generate_name, step by step.                                            *)
(***************************************************************************)
\* entry into generate_name(a, c, r)
Enter(a, c, r) ==
    /\ pc' = "Validating"
    /\ animal_type' = a
    /\ pet_color' = c
    /\ retries' = r
    /\ input_data' = NoInputData
    /\ attempt' = 0
    /\ invocations' = <<>>
    /\ outcomes' = <<>>
    /\ log' = <<>>
    /\ ret' = "pending"
    /\ result' = NoResult

\* the outer "except Exception as e" (lines 77-86), reached with the
\* exception whose str() is desc after lg has been logged
OuterHandler(desc, lg) ==
    /\ log' = Append(lg, ErrorEntry(desc))
    /\ result' = FailureResult(desc)
    /\ ret' = "dict"
    /\ pc' = "done"

\* a library caller invokes generate_name with any retries
Call(a, c, r) ==
    /\ pc \in {"idle", "done"}
    /\ ui_pc = "idle"
    /\ Enter(a, c, r)
    /\ UNCHANGED ui_vars

\* lines 48-49: the validation fails and the ValueError reaches the outer
\* handler
ValidationError ==
    /\ pc = "Validating"
    /\ IsEmptyInput(animal_type, pet_color)
    /\ OuterHandler(ValidationMsg, log)
    /\ UNCHANGED <<animal_type, pet_color, retries, input_data, attempt,
                   invocations, outcomes>>
    /\ UNCHANGED ui_vars

\* lines 48-59: the validation passes, the parameters are normalised and the
\* loop is reached
Normalise ==
    /\ pc = "Validating"
    /\ ~IsEmptyInput(animal_type, pet_color)
    /\ input_data' = [pet_color |-> Normalize(pet_color),
                      animal_type |-> Normalize(animal_type)]
    /\ log' = Append(log, InfoEntry)
    /\ pc' = "Attempting"
    /\ UNCHANGED <<animal_type, pet_color, retries, attempt, invocations,
                   outcomes, ret, result>>
    /\ UNCHANGED ui_vars

\* line 61 with range(retries) exhausted: the try block ends, no return
\* statement is executed and the function returns None
LoopExit ==
    /\ pc = "Attempting"
    /\ ~(attempt < retries)
    /\ ret' = "None"
    /\ pc' = "done"
    /\ UNCHANGED <<animal_type, pet_color, retries, input_data, attempt,
                   invocations, outcomes, log, result>>
    /\ UNCHANGED ui_vars

\* variant: the final attempt re-raises the first failure of the call
\* instead of the current one
AttemptFailedRaisesFirst(desc) ==
    LET lg == Append(log, WarningEntry(attempt, desc))
        warnings == {i \in DOMAIN lg : lg[i].level = "warning"}
        first == lg[CHOOSE i \in warnings : \A j \in warnings : i <= j]
    IN  IF IsLastAttempt(attempt, retries)
        THEN /\ OuterHandler(first.text, lg)
             /\ UNCHANGED attempt
        ELSE /\ log' = lg
             /\ attempt' = attempt + 1
             /\ UNCHANGED <<pc, ret, result>>

\* lines 72-75: the inner handler of an attempt that raised desc
AttemptFailed(desc) ==
    LET lg == Append(log, WarningEntry(attempt, desc))
    IN  IF IsLastAttempt(attempt, retries)
        THEN /\ OuterHandler(desc, lg)
             /\ UNCHANGED attempt
        ELSE /\ log' = lg
             /\ attempt' = attempt + 1
             /\ UNCHANGED <<pc, ret, result>>

\* line 63 raises: chain.invoke fails with an exception whose str() is e
InvokeRaises(e) ==
    /\ pc = "Attempting"
    /\ attempt < retries
    /\ invocations' = Append(invocations, input_data)
    /\ outcomes' = Append(outcomes, [kind |-> "raise", text |-> <<e>>])
    /\ AttemptFailed(e)
    /\ UNCHANGED <<animal_type, pet_color, retries, input_data>>
    /\ UNCHANGED ui_vars

\* lines 63-71: chain.invoke returns a message whose content is parsed; four
\* segments are returned, any other count raises ValueError
InvokeReturns(content) ==
    /\ pc = "Attempting"
    /\ attempt < retries
    /\ invocations' = Append(invocations, input_data)
    /\ outcomes' = Append(outcomes, [kind |-> "reply", text |-> content])
    /\ LET p == ParseResponse(content)
       IN  IF p.ok
           THEN /\ result' = SuccessResult(p.fields)
                /\ ret' = "dict"
                /\ pc' = "done"
                /\ UNCHANGED <<log, attempt>>
           ELSE AttemptFailed(p.err)
    /\ UNCHANGED <<animal_type, pet_color, retries, input_data>>
    /\ UNCHANGED ui_vars

(***************************************************************************)
(* The generate-button handler of main() (lines 191-242).                  *)
(***************************************************************************)
\* variant: every result without an error is recorded
ShouldRecordNoError(r) == r.error = None

\* "if result["name"]:"
ShouldRecord(r) == Truthy(r.name)

\* the name_history entry of lines 202-205
HistoryEntry(r, now, a, c) ==
    [name |-> r.name, explanation |-> r.explanation, fun_fact |-> r.fun_fact,
     nickname |-> r.nickname, error |-> r.error, timestamp |-> now,
     animal_type |-> a, pet_color |-> c]

\* a script run triggered by the button starts: widgets are read, the
\* page is redrawn from scratch
ClickStart(a, c) ==
    /\ ui_pc = "idle"
    /\ clock < MaxClicks
    /\ clock' = clock + 1
    /\ ui_animal_type' = a
    /\ ui_pet_color' = c

\* line 192 false, line 242: a widget value is empty
ClickIncomplete(a, c) ==
    /\ ClickStart(a, c)
    /\ ~(Truthy(a) /\ Truthy(c))
    /\ screen' = [kind |-> "warning",
                  body |-> <<"Please fill in both the pet type and color!">>]
    /\ NotCalled
    /\ UNCHANGED <<ui_pc, name_history, generation_count>>

\* line 195 raises (no OPENAI_API_KEY, lines 21-22), lines 239-240 render it
ClickNoKey(a, c) ==
    /\ ClickStart(a, c)
    /\ Truthy(a) /\ Truthy(c)
    /\ screen' = [kind |-> "exception",
                  body |-> <<"An error occurred: ",
                             "OPENAI_API_KEY not found in environment variables">>]
    /\ NotCalled
    /\ UNCHANGED <<ui_pc, name_history, generation_count>>

\* lines 195-196: the generator is built and generate_name is called with
\* the default retries
ClickGenerate(a, c) ==
    /\ ClickStart(a, c)
    /\ Truthy(a) /\ Truthy(c)
    /\ Enter(a, c, DefaultRetries)
    /\ ui_pc' = "waiting"
    /\ screen' = BlankScreen
    /\ UNCHANGED <<name_history, generation_count>>

\* lines 198-237: generate_name has returned; the handler records and
\* renders a result whose name is truthy, and does nothing otherwise
HandlerResume ==
    /\ ui_pc = "waiting"
    /\ pc = "done"
    /\ IF ShouldRecord(result)
       THEN /\ generation_count' = generation_count + 1
            /\ name_history' =
                   Append(name_history,
                          HistoryEntry(result, clock, ui_animal_type,
                                       ui_pet_color))
            /\ screen' = [kind |-> "result",
                          body |-> <<result.name, result.explanation,
                                     result.fun_fact, result.nickname>>]
       ELSE UNCHANGED <<generation_count, name_history, screen>>
    /\ ui_pc' = "idle"
    /\ UNCHANGED gen_vars
    /\ UNCHANGED <<ui_animal_type, ui_pet_color, clock>>

(***************************************************************************)
(* Specifications.                                                         *)
(***************************************************************************)
\* generate_name called as a library function
Next ==
    \/ \E a \in AnimalInputs, c \in ColorInputs, r \in RetriesDomain :
           Call(a, c, r)
    \/ ValidationError
    \/ Normalise
    \/ LoopExit
    \/ \E e \in ServiceErrors : InvokeRaises(e)
    \/ \E content \in ServiceReplies : InvokeReturns(content)

Spec == Init /\ [][Next]_vars

\* one session of the Streamlit page
NextUI ==
    \/ \E a \in AnimalInputs, c \in ColorInputs : ClickIncomplete(a, c)
    \/ \E a \in AnimalInputs, c \in ColorInputs : ClickNoKey(a, c)
    \/ \E a \in AnimalInputs, c \in ColorInputs : ClickGenerate(a, c)
    \/ ValidationError
    \/ Normalise
    \/ \E e \in ServiceErrors : InvokeRaises(e)
    \/ \E content \in ServiceReplies : InvokeReturns(content)
    \/ HandlerResume

SpecUI == Init /\ [][NextUI]_vars

(***************************************************************************)
(* Vocabulary of the properties.                                           *)
(***************************************************************************)
\* generate_name has returned
Done == pc = "done"

\* name, explanation, fun_fact and nickname are all strings
AllPopulated(r) ==
    /\ r.name # None
    /\ r.explanation # None
    /\ r.fun_fact # None
    /\ r.nickname # None

\* name, explanation, fun_fact and nickname are all None
AllNull(r) ==
    /\ r.name = None
    /\ r.explanation = None
    /\ r.fun_fact = None
    /\ r.nickname = None

\* terminal state Succeeded: a dict with the four fields and error = None
Succeeded == Done /\ ret = "dict" /\ AllPopulated(result) /\ result.error = None

\* terminal state Failed: a dict with no field and an error message
Failed == Done /\ ret = "dict" /\ AllNull(result) /\ result.error # None

\* the arguments pass the validation of the specification: both non-empty
\* after trimming
ValidDescriptor ==
    /\ \E i \in DOMAIN animal_type : animal_type[i] \notin Whitespace
    /\ \E i \in DOMAIN pet_color : pet_color[i] \notin Whitespace

\* number of '|'-separated segments of a text, by counting delimiters
SegmentCount(t) == 1 + Cardinality({i \in DOMAIN t : t[i] = "|"})

\* the service replied with exactly four segments
WellFormed(o) == o.kind = "reply" /\ SegmentCount(o.text) = 4

\* the service replied with another number of segments
Malformed(o) == o.kind = "reply" /\ SegmentCount(o.text) # 4

\* the description of the failure an outcome other than a well-formed reply
\* causes
FailureOf(o) ==
    IF o.kind = "raise" THEN o.text[1] ELSE UnpackError(SegmentCount(o.text))

IsWarning(e) == e.level = "warning"
IsError(e) == e.level = "error"
Warnings == SelectSeq(log, IsWarning)
Errors == SelectSeq(log, IsError)

\* the trimmed segments of the well-formed replies, written out by hand
TrimmedSegments(t) ==
    CASE t = PaddedReply -> << <<"L", "u">>, <<"m", " ", "g">>, <<"f">>, <<"n">> >>
      [] t = BlankNameReply -> << <<>>, <<"e">>, <<"f">>, <<"n">> >>

(***************************************************************************)
(* C1.                                                                     *)
(***************************************************************************)
\* C1: whatever the arguments (retries included) and the service outcomes,
\* the value generate_name returns is a dict that has either all four
\* fields populated and error = None, or all four fields None and an error
\* message: exactly one of the two.
C1_ExactlyOneShape ==
    Done =>
        /\ ret = "dict"
        /\ (AllPopulated(result) /\ result.error = None)
               # (AllNull(result) /\ result.error # None)

(***************************************************************************)
(* C2.                                                                     *)
(***************************************************************************)
\* C2: a call whose animal_type or pet_color is empty after trimming returns
\* error set and name None without ever invoking the service, and every
\* service invocation carries a non-empty animal_type and pet_color.
C2_ValidationShortCircuit ==
    /\ (pc \in {"Attempting", "done"} /\ ~ValidDescriptor) =>
           /\ Done
           /\ ret = "dict"
           /\ result.error # None
           /\ result.name = None
           /\ invocations = <<>>
    /\ \A i \in DOMAIN invocations :
           /\ invocations[i].animal_type # <<>>
           /\ invocations[i].pet_color # <<>>

\* a call with a blank colour and a usable animal type has returned its
\* error without a service call
C2_Witness ==
    /\ Done
    /\ animal_type = <<"C", "a", "t">>
    /\ pet_color = <<" ", " ">>
    /\ result.error # None
    /\ invocations = <<>>

(***************************************************************************)
(* C3.                                                                     *)
(***************************************************************************)
\* C3: with a valid descriptor and a service whose every reply is
\* malformed, generate_name makes exactly retries service calls and returns
\* a dict with an error and no field, for every value of retries.
C3_Exhaustion ==
    (/\ Done
     /\ ValidDescriptor
     /\ \A i \in DOMAIN outcomes : Malformed(outcomes[i])) =>
        /\ Len(invocations) = retries
        /\ ret = "dict"
        /\ result.error # None
        /\ AllNull(result)

(***************************************************************************)
(* C4.                                                                     *)
(***************************************************************************)
\* C4: when the service has replied malformed k times (k < retries) the call
\* is still attempting, and when it then replies well-formed on call k+1 the
\* call has returned, after exactly k+1 service calls, error = None and the
\* four fields equal to the trimmed segments of that reply, in order.
C4_RetryThenSucceed ==
    LET n == Len(outcomes)
    IN  /\ (/\ n > 0
            /\ \A i \in 1..(n - 1) : Malformed(outcomes[i])
            /\ WellFormed(outcomes[n])) =>
               /\ Done
               /\ ret = "dict"
               /\ Len(invocations) = n
               /\ n <= retries
               /\ result.error = None
               /\ <<result.name, result.explanation, result.fun_fact,
                    result.nickname>> = TrimmedSegments(outcomes[n].text)
        /\ (/\ pc \in {"Attempting", "done"}
            /\ ValidDescriptor
            /\ n < retries
            /\ \A i \in 1..n : Malformed(outcomes[i])) =>
               pc = "Attempting" /\ attempt = n

\* two malformed replies, then the padded well-formed one on the third call
C4_Witness ==
    /\ Done
    /\ Len(outcomes) = 3
    /\ Malformed(outcomes[1])
    /\ Malformed(outcomes[2])
    /\ outcomes[3].text = PaddedReply
    /\ result.name = <<"L", "u">>
    /\ result.explanation = <<"m", " ", "g">>

(***************************************************************************)
(* C5.                                                                     *)
(***************************************************************************)
\* C5: an attempt succeeds exactly when the service replied with a text of
\* exactly four segments; a raising call, a reply with fewer and a reply
\* with more segments each count as one failed attempt, whatever their kind.
C5_AttemptSuccessCriterion ==
    /\ \A i \in DOMAIN outcomes :
           WellFormed(outcomes[i]) <=> (i = Len(outcomes) /\ Succeeded)
    /\ \A i \in DOMAIN outcomes :
           ~WellFormed(outcomes[i]) <=> (i \in DOMAIN Warnings)
    /\ pc = "Attempting" => attempt = Len(outcomes)
    /\ (Failed /\ outcomes # <<>>) => Len(outcomes) = retries

\* a raising call, a three-segment reply and a five-segment reply used up
\* the three attempts of one call
C5_Witness ==
    /\ Failed
    /\ retries = 3
    /\ Len(outcomes) = 3
    /\ outcomes[1].kind = "raise"
    /\ outcomes[2].text = ThreeSegmentReply
    /\ outcomes[3].text = FiveSegmentReply

(***************************************************************************)
(* C6.                                                                     *)
(***************************************************************************)
\* C6: once the button handler has finished with a result of generate_name,
\* the page shows the structured result when the generation succeeded and
\* the result's error string, verbatim, when it failed.
C6_HandlerDisplays ==
    (ui_pc = "idle" /\ Done /\ ret = "dict") =>
        IF result.error = None
        THEN screen.kind = "result"
        ELSE screen.kind = "error" /\ screen.body = <<result.error>>

(***************************************************************************)
(* C7.                                                                     *)
(***************************************************************************)
\* C7: a call ends in exactly one of the terminal states Succeeded and
\* Failed, by returning a result value; attempts are numbered 1, 2, ... in
\* sequence, none beyond retries, and no service call follows a successful
\* attempt.
C7_StateMachine ==
    /\ pc \in {"idle", "Validating", "Attempting", "done"}
    /\ Done => (Succeeded # Failed)
    /\ pc = "Validating" => invocations = <<>>
    /\ pc = "Attempting" => attempt = Len(invocations)
    /\ \A i \in DOMAIN invocations : i <= retries
    /\ \A i \in DOMAIN outcomes :
           WellFormed(outcomes[i]) => i = Len(outcomes)

(***************************************************************************)
(* C8.                                                                     *)
(***************************************************************************)
\* C8: when every one of the retries attempts has failed, the returned
\* error message embeds the description of the failure of attempt number
\* retries and every field is None.
C8_LastFailureReported ==
    (/\ Done
     /\ retries >= 1
     /\ Len(outcomes) = retries
     /\ \A i \in DOMAIN outcomes : ~WellFormed(outcomes[i])) =>
        /\ ret = "dict"
        /\ AllNull(result)
        /\ result.error # None
        /\ Len(result.error) = 2
        /\ result.error[2] = FailureOf(outcomes[retries])

\* three attempts failed in three different ways and the message is the
\* third one's
C8_Witness ==
    /\ Done
    /\ retries = 3
    /\ Len(outcomes) = 3
    /\ outcomes[1].kind = "raise"
    /\ outcomes[2].text = OneSegmentReply
    /\ outcomes[3].text = FiveSegmentReply
    /\ result.error = <<"Failed to generate name: ",
                        "too many values to unpack (expected 4)">>

(***************************************************************************)
(* C9.                                                                     *)
(***************************************************************************)
\* C9: the i-th failed attempt is logged as a warning tagged i carrying its
\* failure; a failure before the last allowed attempt leaves the call
\* attempting, the failure of the last one ends it in Failed; one error
\* record is logged, last, exactly when the call ends in failure, and none
\* when it succeeds.
C9_LogOrdering ==
    /\ \A i \in DOMAIN Warnings : Warnings[i].attempt = i
    /\ \A i \in DOMAIN outcomes :
           ~WellFormed(outcomes[i]) =>
               /\ i \in DOMAIN Warnings
               /\ Warnings[i].text = FailureOf(outcomes[i])
    /\ Len(Warnings) <= Len(outcomes)
    /\ (Len(Warnings) > 0 /\ Len(Warnings) = Len(outcomes)) =>
           IF Len(Warnings) < retries THEN pc = "Attempting" ELSE Failed
    /\ Len(Errors) <= 1
    /\ Len(Errors) = 1 <=> (Done /\ ret = "dict" /\ result.error # None)
    /\ Len(Errors) = 1 => log[Len(log)].level = "error"
    /\ Succeeded => Len(Errors) = 0

\* a call that failed three times: warnings 1, 2, 3 and then the one error
C9_Witness ==
    /\ Failed
    /\ Len(Warnings) = 3
    /\ Len(log) = 5
    /\ log[5].level = "error"
    /\ log[4].attempt = 3

(***************************************************************************)
(* C10.                                                                    *)
(***************************************************************************)
\* the session invariant, as a step
C10_Step ==
    /\ generation_count' = Len(name_history')
    /\ \A i \in DOMAIN name_history' :
           /\ Truthy(name_history'[i].name)
           /\ name_history'[i].error = None
    /\ IF ui_pc = "waiting" /\ ui_pc' = "idle" /\ Truthy(result.name)
       THEN /\ generation_count' = generation_count + 1
            /\ Len(name_history') = Len(name_history) + 1
            /\ SubSeq(name_history', 1, Len(name_history)) = name_history
       ELSE /\ generation_count' = generation_count
            /\ name_history' = name_history

\* C10: in a session generation_count always equals the length of
\* name_history; a click whose result has a non-empty name adds one to both,
\* every other step leaves both unchanged, and every entry of name_history
\* has a non-empty name and error = None.
C10_SessionInvariant ==
    generation_count = Len(name_history) /\ [][C10_Step]_vars

\* one recorded generation, then a second click whose call failed and left
\* the counter and the history alone
C10_Witness ==
    /\ generation_count = 1
    /\ Len(name_history) = 1
    /\ clock = 2
    /\ ui_pc = "idle"
    /\ Failed

=============================================================================
